---- MODULE Spec2Model ----
(***************************************************************************)
(* Business-Assistant: the permission gate, the CRM / projects / ops       *)
(* tools, the tool dispatch bridge and the function-calling loop.          *)
(*                                                                         *)
(* Every definition models the body of one function of the source as it    *)
(* is written.  Python resolves names, attributes and keyword arguments    *)
(* when a statement runs, so a misspelt name is modelled as the exception  *)
(* Python raises at that statement (NameError, AttributeError, TypeError,  *)
(* ValueError), looked up in the set of names that the source defines.     *)
(* tools/crm.py (line 41) and tools/ops.py (lines 202, 234) additionally   *)
(* do not compile; the model takes their functions statement by statement. *)
(***************************************************************************)
EXTENDS Integers, Sequences, FiniteSets, TLC

VARIABLES ws, crm_WS, projects_WS, ops_WS, last, date_today

\* date_today is what date.today() returns during the session
vars == <<ws, crm_WS, projects_WS, ops_WS, last, date_today>>

(* ---------------- bounds ------------------------------------------------ *)
\* number of numbering steps taken by the numbering specification
MaxCreated == 2

(* ---------------- Python values ----------------------------------------- *)
None == "None"

Raise(exc, msg) == [kind |-> "raise", exc |-> exc, msg |-> msg, value |-> <<>>]

Return(v) == [kind |-> "return", exc |-> None, msg |-> <<>>, value |-> v]

\* str.lower() / str.strip() on the status strings the model uses
StrLower(s) ==
  CASE s = "DONE" -> "done"
    [] s = "Doing" -> "doing"
    [] OTHER -> s

StrStrip(s) ==
  CASE s = " Doing " -> "Doing"
    [] OTHER -> s

\* f(**args): the keyword arguments must cover the parameters without a
\* default and must all be parameters of f
BindsTo(args, required, allowed) ==
  /\ required \subseteq DOMAIN args
  /\ DOMAIN args \subseteq allowed

Get(args, key, default) == IF key \in DOMAIN args THEN args[key] ELSE default

BindError == Raise("TypeError", <<"missing or unexpected keyword argument">>)

(* ---------------- tools/permissions.py ---------------------------------- *)
Roles == {"owner", "manager", "member", "viewer"}

\* mutant: the viewer is let through to move_task
ACTION_MATRIX_viewer ==
  [create_invoice |-> {"owner", "manager"},
   send_reminder  |-> {"owner", "manager"},
   record_payment |-> {"owner", "manager"},
   record_expense |-> {"owner", "manager"},
   create_task    |-> {"owner", "manager", "member"},
   move_task      |-> {"owner", "manager", "member", "viewer"}]

ACTION_MATRIX ==
  [create_invoice |-> {"owner", "manager"},
   send_reminder  |-> {"owner", "manager"},
   record_payment |-> {"owner", "manager"},
   record_expense |-> {"owner", "manager"},
   create_task    |-> {"owner", "manager", "member"},
   move_task      |-> {"owner", "manager", "member"}]

\* mutant: an action missing from the matrix is open to everybody
has_permission_open(user_role, action) ==
  IF action \in DOMAIN ACTION_MATRIX THEN user_role \in ACTION_MATRIX[action]
  ELSE TRUE

has_permission(user_role, action) ==
  LET allowed == IF action \in DOMAIN ACTION_MATRIX THEN ACTION_MATRIX[action]
                 ELSE {}
  IN user_role \in allowed

(* ---------------- context/loader.py : Workspace ------------------------- *)
\* the attributes Workspace.__init__ sets
WorkspaceAttrs ==
  {"users", "clients", "projects", "tasks", "invoices", "payments", "expenses"}

\* the functions context/selectors.py defines
SelectorsAttrs ==
  {"find_client_candidates", "get_client_by_id", "get_projects_for_client",
   "get_overdue_invoices", "reslove_task_by_title", "suggest_default_invoice"}

\* the public functions of the rapidfuzz.process module
RapidfuzzProcessAttrs == {"extract", "extractOne", "extract_iter", "cdist", "cpdist"}

AttrError(obj, attr) ==
  Raise("AttributeError", <<obj, " has no attribute ", attr>>)

NameErr(name) == Raise("NameError", <<"name '", name, "' is not defined">>)

NotAttached(mod) ==
  Raise("RuntimeError",
        <<"Workspace not attached. Call ", mod, ".attach_workspace(ws) first.">>)

\* the result of a tool body: the workspace after it and how it ended
Res(w, out) == [ws |-> w, out |-> out]

(* ---------------- datetime.date ----------------------------------------- *)
\* a date is <<year, month, day>>; the workspace keeps dates as ISO text
\* "YYYY-MM-DD", which names the same three numbers
IsLeap(y) == y % 4 = 0 /\ (y % 100 # 0 \/ y % 400 = 0)

DaysInMonth(y, m) ==
  CASE m \in {4, 6, 9, 11} -> 30
    [] m = 2 -> IF IsLeap(y) THEN 29 ELSE 28
    [] OTHER -> 31

NextDay(d) ==
  IF d[3] < DaysInMonth(d[1], d[2]) THEN <<d[1], d[2], d[3] + 1>>
  ELSE IF d[2] < 12 THEN <<d[1], d[2] + 1, 1>>
  ELSE <<d[1] + 1, 1, 1>>

PrevDay(d) ==
  IF d[3] > 1 THEN <<d[1], d[2], d[3] - 1>>
  ELSE IF d[2] > 1 THEN <<d[1], d[2] - 1, DaysInMonth(d[1], d[2] - 1)>>
  ELSE <<d[1] - 1, 12, 31>>

\* d + timedelta(days=n) and d - timedelta(days=n), n >= 0
RECURSIVE AddDays(_, _)
AddDays(d, n) == IF n = 0 THEN d ELSE AddDays(NextDay(d), n - 1)

RECURSIVE SubDays(_, _)
SubDays(d, n) == IF n = 0 THEN d ELSE SubDays(PrevDay(d), n - 1)

\* a < b and a <= b on dates
DateLess(a, b) ==
  \/ a[1] < b[1]
  \/ a[1] = b[1] /\ a[2] < b[2]
  \/ a[1] = b[1] /\ a[2] = b[2] /\ a[3] < b[3]

DateLeq(a, b) == a = b \/ DateLess(a, b)

RECURSIVE DaysBeforeMonth(_, _)
DaysBeforeMonth(y, m) ==
  IF m = 1 THEN 0 ELSE DaysBeforeMonth(y, m - 1) + DaysInMonth(y, m - 1)

\* date.toordinal(): 1 for 0001-01-01
ToOrdinal(d) ==
  (d[1] - 1) * 365 + (d[1] - 1) \div 4 - (d[1] - 1) \div 100 + (d[1] - 1) \div 400
  + DaysBeforeMonth(d[1], d[2]) + d[3]

\* date.weekday(): 0 is Monday
Weekday(d) == (ToOrdinal(d) + 6) % 7

\* the days date.today() may return: a Friday, the Sunday of the same week
\* in the next month, and the Monday after it
Todays == {<<2025, 1, 31>>, <<2025, 2, 2>>, <<2025, 2, 3>>}

(* ---------------- decimal strings (Python int is unbounded) ------------- *)
Digits == {"0", "1", "2", "3", "4", "5", "6", "7", "8", "9"}

DigitVal(c) ==
  CASE c = "0" -> 0 [] c = "1" -> 1 [] c = "2" -> 2 [] c = "3" -> 3
    [] c = "4" -> 4 [] c = "5" -> 5 [] c = "6" -> 6 [] c = "7" -> 7
    [] c = "8" -> 8 [] c = "9" -> 9

DigitChar(n) ==
  CASE n = 0 -> "0" [] n = 1 -> "1" [] n = 2 -> "2" [] n = 3 -> "3"
    [] n = 4 -> "4" [] n = 5 -> "5" [] n = 6 -> "6" [] n = 7 -> "7"
    [] n = 8 -> "8" [] n = 9 -> "9"

\* an int is kept as its decimal digits without leading zeros; 0 is <<"0">>
RECURSIVE StripZeros(_)
StripZeros(d) ==
  IF Len(d) > 1 /\ Head(d) = "0" THEN StripZeros(Tail(d)) ELSE d

\* int(text) for a non-empty string of digits
ParseInt(d) == StripZeros(d)

RECURSIVE LexLess(_, _)
LexLess(a, b) ==
  IF a = <<>> THEN FALSE
  ELSE IF DigitVal(Head(a)) # DigitVal(Head(b))
       THEN DigitVal(Head(a)) < DigitVal(Head(b))
       ELSE LexLess(Tail(a), Tail(b))

IntLess(a, b) ==
  IF Len(a) # Len(b) THEN Len(a) < Len(b) ELSE LexLess(a, b)

IntMax(a, b) == IF IntLess(a, b) THEN b ELSE a

RECURSIVE IntInc(_)
IntInc(d) ==
  IF d = <<>> THEN <<"1">>
  ELSE LET k == Len(d)
           lastv == DigitVal(d[k])
       IN IF lastv < 9 THEN Append(SubSeq(d, 1, k - 1), DigitChar(lastv + 1))
          ELSE Append(IntInc(SubSeq(d, 1, k - 1)), "0")

\* str(n) for an int n >= 0 of the model's range
RECURSIVE IntStr(_)
IntStr(n) ==
  IF n < 10 THEN <<DigitChar(n)>> ELSE Append(IntStr(n \div 10), DigitChar(n % 10))

\* format(n, "03d"): zero-padded to at least three digits
RECURSIVE Pad3(_)
Pad3(d) == IF Len(d) < 3 THEN Pad3(<<"0">> \o d) ELSE d

\* the format specifications the source uses, and whether Python accepts them
FormatSpecValid(fmt) == fmt \in {"03d", ",.2f"}

(* ---------------- tools/crm.py : invoice numbering ---------------------- *)
\* the digits matched by re.search(r"(\d+)$", text): the longest run of
\* digits that ends the text; <<>> when the text does not end in a digit
RECURSIVE TrailingDigits(_)
TrailingDigits(s) ==
  IF s = <<>> \/ s[Len(s)] \notin Digits THEN <<>>
  ELSE Append(TrailingDigits(SubSeq(s, 1, Len(s) - 1)), s[Len(s)])

\* n.replace("-", "")
RemoveDashes(s) == SelectSeq(s, LAMBDA c : c # "-")

RECURSIVE BestSuffix(_, _)
BestSuffix(existing_numbers, best) ==
  IF existing_numbers = <<>> THEN best
  ELSE LET m == TrailingDigits(RemoveDashes(Head(existing_numbers)))
       IN BestSuffix(Tail(existing_numbers),
                     IF m # <<>> THEN IntMax(best, ParseInt(m)) ELSE best)

_next_invoice_suffix(existing_numbers) ==
  LET best == BestSuffix(existing_numbers, <<"0">>)
  IN IF best # <<"0">> THEN IntInc(best) ELSE <<"8", "1">>

_format_invoice_number(day, next_suffix) ==
  <<"I", "N", "V", "-">> \o IntStr(day[1]) \o <<"-">> \o Pad3(next_suffix)

(* ---------------- tools/crm.py : _compute_totals ------------------------ *)
\* Money is counted in hundredths and vat_rate in hundredths too (20 is the
\* rate 0.20), so a product of a subtotal and a rate counts ten-thousandths.
\* The source computes in binary64: over the amounts of LineItemsInputs the
\* sum of float(qty) * float(unit_price) rounds to the exact sum.
RECURSIVE Subtotal(_)
Subtotal(line_items) ==
  IF line_items = <<>> THEN 0
  ELSE Head(line_items).qty * Head(line_items).unit_price + Subtotal(Tail(line_items))

\* subtotal * float(vat_rate) is a binary64 product.  Where the exact product
\* lies halfway between two hundredths, the binary64 product lies below the
\* halfway point, above it, or on it; these are the halfway cases of the
\* amounts of LineItemsInputs and VatRates, as binary64 multiplication
\* gives them (0.3 * 0.05 is 0.01499999999999999944...)
Binary64Side(subtotal, vat_rate) ==
  CASE <<subtotal, vat_rate>> \in
         {<<15, 50>>, <<30, 5>>, <<45, 50>>, <<90, 5>>, <<115, 50>>} -> "below"
    [] <<subtotal, vat_rate>> \in
         {<<50, 5>>, <<65, 50>>, <<110, 5>>, <<130, 5>>, <<150, 5>>} -> "above"
    [] OTHER -> "on"

\* round(x, 2) of an exact value of n ten-thousandths, half to even
RoundHalfEven(n) ==
  IF n % 100 > 50 \/ (n % 100 = 50 /\ (n \div 100) % 2 = 1)
  THEN n \div 100 + 1 ELSE n \div 100

\* line 110: round(subtotal * float(vat_rate), 2) rounds the binary64 product
RoundProduct(subtotal, vat_rate) ==
  LET n == subtotal * vat_rate
  IN IF n % 100 # 50 THEN RoundHalfEven(n)
     ELSE CASE Binary64Side(subtotal, vat_rate) = "below" -> n \div 100
            [] Binary64Side(subtotal, vat_rate) = "above" -> n \div 100 + 1
            [] OTHER -> RoundHalfEven(n)

\* subtotal + vat has no digit after the hundredths, so line 111 rounds to it
_compute_totals(line_items, vat_rate) ==
  [subtotal |-> Subtotal(line_items),
   vat |-> RoundProduct(Subtotal(line_items), vat_rate),
   total |-> Subtotal(line_items) + RoundProduct(Subtotal(line_items), vat_rate)]

(* ---------------- config.py --------------------------------------------- *)
\* the keys of CURRENCY_SYMBOLS, and str() of a member of the Currency enum
CURRENCY_SYMBOLS == {<<"USD">>, <<"GBP">>, <<"EUR">>}

EnumStr(currency) == <<"Currency.", currency>>

\* format_money looks the symbol up under str(currency)
format_money(currency) ==
  IF EnumStr(currency) \notin CURRENCY_SYMBOLS
  THEN Raise("KeyError", EnumStr(currency))
  ELSE Return(<<"symbol", currency>>)

(* ---------------- context/selectors.py ---------------------------------- *)
\* index of the first record of seq whose id is the given id, 0 when none
RECURSIVE FirstById(_, _, _)
FirstById(seq, id, i) ==
  IF i > Len(seq) THEN 0
  ELSE IF seq[i].id = id THEN i ELSE FirstById(seq, id, i + 1)

get_client_by_id(w, client_id) == FirstById(w.clients, client_id, 1)

\* lines 39-46: an invoice has no key "due_dats", so the get gives its default
DueBy(inv) == AddDays(inv.date, Get(inv, "due_dats", 14))

get_overdue_invoices(w, day) ==
  SelectSeq(w.invoices,
            LAMBDA inv : DateLess(DueBy(inv), day) /\ inv.status \notin {"paid"})

(* ---------------- tools/crm.py ------------------------------------------ *)
InvoiceNumbers(w) == [i \in 1..Len(w.invoices) |-> w.invoices[i].number]

\* lines 257-278: the invoice built from the defaulted arguments
NewInvoice(w, client_id, currency, vat_rate, line_items, due_days, invoice_data) ==
  [id |-> <<"i", "n", "v", "_">> \o IntStr(invoice_data[1]) \o <<"_">>
            \o Pad3(_next_invoice_suffix(InvoiceNumbers(w))),
   client_id |-> client_id,
   number |-> _format_invoice_number(invoice_data,
                                     _next_invoice_suffix(InvoiceNumbers(w))),
   date |-> invoice_data,
   due_days |-> due_days,
   currency |-> currency,
   vat_rate |-> vat_rate,
   line_items |-> line_items,
   status |-> "draft",
   subtotal |-> _compute_totals(line_items, vat_rate).subtotal,
   vat |-> _compute_totals(line_items, vat_rate).vat,
   total |-> _compute_totals(line_items, vat_rate).total]

create_invoice(w, handle, args) ==
  IF ~BindsTo(args, {"user_role", "client_id", "currency", "vat_rate", "line_items"},
              {"user_role", "client_id", "currency", "vat_rate", "line_items",
               "due_days", "notes", "invoice_date"})
  THEN Res(w, BindError)
  ELSE IF ~has_permission(args.user_role, "create_invoice")
  THEN Res(w, Raise("PermissionError",
                    <<"You do not have permission to create invoices.">>))
  ELSE IF handle = None THEN Res(w, NotAttached("crm"))
  ELSE IF get_client_by_id(w, args.client_id) = 0
  THEN Res(w, Raise("ValueError", <<"client '", args.client_id, "' not found.">>))
  ELSE
    LET client == w.clients[get_client_by_id(w, args.client_id)]
        currency == IF args.currency # "" THEN args.currency ELSE client.currency
        \* every call of the model passes a rate, so line 256 keeps it
        invoice == NewInvoice(w, args.client_id, currency, args.vat_rate,
                              args.line_items,
                              Get(args, "due_days", 14),
                              Get(args, "invoice_date", date_today))
    IN \* line 266 formats the id with the specification "03.d"
       IF ~FormatSpecValid("03.d")
       THEN Res(w, Raise("ValueError", <<"Format specifier missing precision">>))
       ELSE IF format_money(currency).kind = "raise"
       THEN Res([w EXCEPT !.invoices = Append(@, invoice)], format_money(currency))
       ELSE Res([w EXCEPT !.invoices = Append(@, invoice)],
                Return([invoice |-> invoice, summary |-> <<"Draft invoice">>]))

\* the names tools/crm.py defines or imports at module level
CrmGlobals ==
  {"annotations", "Any", "Dict", "List", "Optional", "Tuple", "date", "datetime",
   "timedelta", "re", "Workspace", "selectors", "has_permission", "format_money",
   "Currency", "_WS", "attach_workspace", "_require_ws", "find_client",
   "_next_invoice_suffix", "_format_invoice_number", "_compute_totals",
   "create_invoice", "chase_late_payers"}

\* line 160 passes the value of "status" == "active" to get() as the key
StatusKey == IF "status" = "active" THEN "True" ELSE "False"

\* lines 145-178. A graph is [kind, successors]; successors gives, for a
\* client id, the statuses of its Project nodes and the dates of its Invoice
\* nodes. Every exception inside the try block is answered with 0: an id the
\* graph does not hold, the name "data" of line 165, the name "inv_date" that
\* line 170 reads after line 169 has assigned "inv_dat".
kg_boost(graph, client_id) ==
  IF graph.kind = "NoneType" THEN 0
  ELSE IF client_id \notin DOMAIN graph.successors THEN 0
  ELSE IF "data" \notin CrmGlobals THEN 0
  ELSE IF graph.successors[client_id].invoices # <<>> THEN 0
  ELSE IF \E i \in 1..Len(graph.successors[client_id].projects) :
            StatusKey = "status" /\ graph.successors[client_id].projects[i] # ""
       THEN 10 ELSE 0

\* list.sort(key=score, reverse=True) is stable: x, which came after every
\* entry of s, goes behind the entries whose score is not smaller
InsertRanked(x, s) ==
  SubSeq(s, 1, Cardinality({i \in 1..Len(s) : s[i].score >= x.score}))
    \o <<x>>
    \o SubSeq(s, Cardinality({i \in 1..Len(s) : s[i].score >= x.score}) + 1, Len(s))

RECURSIVE SortRanked(_)
SortRanked(s) ==
  IF s = <<>> THEN <<>>
  ELSE InsertRanked(s[Len(s)], SortRanked(SubSeq(s, 1, Len(s) - 1)))

\* lines 181-185: the boost is added to each candidate's fuzzy score
Boosted(fuzzy, graph) ==
  [i \in 1..Len(fuzzy) |->
     [client |-> fuzzy[i].client,
      score |-> fuzzy[i].score + kg_boost(graph, fuzzy[i].client.id)]]

\* lines 188-201: the first top_k clients with distinct ids
RECURSIVE TopDistinct(_, _, _)
TopDistinct(ranked, top_k, out) ==
  IF ranked = <<>> THEN out
  ELSE IF Head(ranked).client.id \in {out[i].id : i \in 1..Len(out)}
  THEN TopDistinct(Tail(ranked), top_k, out)
  ELSE IF Len(out) + 1 >= top_k THEN Append(out, Head(ranked).client)
  ELSE TopDistinct(Tail(ranked), top_k, Append(out, Head(ranked).client))

\* lines 181-203 of find_client
RankedClients(fuzzy, graph, top_k) ==
  TopDistinct(SortRanked(Boosted(fuzzy, graph)), top_k, <<>>)

NoGraph ==
  [kind |-> "NoneType",
   successors |-> [c \in {"c1", "c2"} |-> [projects |-> <<>>, invoices |-> <<>>]]]

\* fuzz.WRatio of rapidfuzz: 100 for equal strings, less for any other pair;
\* the model's scores for the names it holds
WRatio(query, name) == IF query = name THEN 100 ELSE 30

\* selectors.py lines 12-23: process.extract gives the best "limit" names,
\* best first
find_client_candidates(w, query, limit) ==
  SubSeq(SortRanked([i \in 1..Len(w.clients) |->
                       [client |-> w.clients[i],
                        score |-> WRatio(query, w.clients[i].name)]]),
         1, IF limit < Len(w.clients) THEN limit ELSE Len(w.clients))

find_client(w, handle, args) ==
  IF ~BindsTo(args, {"query"}, {"query", "top_k", "graph"})
  THEN Res(w, BindError)
  ELSE IF handle = None THEN Res(w, NotAttached("crm"))
  ELSE Res(w, Return(RankedClients(
                       find_client_candidates(w, args.query,
                                              Get(args, "top_k", 5) * 2),
                       Get(args, "graph", NoGraph), Get(args, "top_k", 5))))

\* lines 337-356: the reminder drafted for an overdue invoice
Reminder(w, inv) ==
  [client_id |-> inv.client_id,
   client_name |-> IF get_client_by_id(w, inv.client_id) = 0 THEN "Unkown client"
                   ELSE w.clients[get_client_by_id(w, inv.client_id)].name,
   invoice_number |-> inv.number,
   due_date |-> AddDays(inv.date, Get(inv, "due_days", 14))]

\* lines 335-361: the first reminder already formats the invoice's total
AfterOverdue(w, overdue) ==
  IF overdue # <<>> /\ format_money(overdue[1].currency).kind = "raise"
  THEN Res(w, format_money(overdue[1].currency))
  ELSE Res(w, Return([count_overdue |-> Len(overdue),
                      reminders |-> [i \in 1..Len(overdue) |-> Reminder(w, overdue[i])]]))

chase_late_payers(w, handle, args) ==
  IF ~BindsTo(args, {"user_role"}, {"user_role", "today"})
  THEN Res(w, BindError)
  ELSE IF ~has_permission(args.user_role, "send_reminder")
  THEN Res(w, Raise("PermissionError",
                    <<"You do not have permission to send reminders.">>))
  ELSE IF handle = None THEN Res(w, NotAttached("crm"))
  ELSE AfterOverdue(w, get_overdue_invoices(w, Get(args, "today", date_today)))

(* ---------------- tools/projects.py ------------------------------------- *)
_VALID_STATUSES == {"todo", "doing", "done"}

\* (status or "").strip().lower(); None and "" both give ""
NormStatus(status) == IF status = None THEN "" ELSE StrLower(StrStrip(status))

_ensure_status_ok(status) == NormStatus(status) \in _VALID_STATUSES

\* the numeric tail of a task id and the id built from a number
IdTail(id) ==
  CASE id = "t1" -> 1 [] id = "t2" -> 2 [] id = "t3" -> 3 [] id = "t4" -> 4
    [] id = "ex1" -> 1 [] id = "ex2" -> 2
    [] OTHER -> 0

TaskId(n) ==
  CASE n = 1 -> "t1" [] n = 2 -> "t2" [] n = 3 -> "t3" [] n = 4 -> "t4"
    [] OTHER -> "t5"

RECURSIVE BestTail(_, _)
BestTail(tasks, best) ==
  IF tasks = <<>> THEN best
  ELSE BestTail(Tail(tasks),
                IF IdTail(Head(tasks).id) > best THEN IdTail(Head(tasks).id)
                ELSE best)

_next_task_id(w) == TaskId(BestTail(w.tasks, 0) + 1)

\* the tasks a title query is matched against
Pool(w, project_id) ==
  SelectSeq(w.tasks, LAMBDA t : project_id = None \/ t.project_id = project_id)

\* line 97 calls process.extractOnce, which rapidfuzz.process does not have;
\* the outcome is the exception, or the index in the pool of the task chosen
\* (0 for None)
_resolve_task_by_title(w, query, project_id) ==
  LET pool == Pool(w, project_id)
  IN IF pool = <<>> THEN Return(0)
     ELSE IF "extractOnce" \notin RapidfuzzProcessAttrs
          THEN AttrError("module 'rapidfuzz.process'", "extractOnce")
          ELSE Return(1)

list_tasks(w, handle, args) ==
  IF ~BindsTo(args, {"project_id"}, {"project_id", "status"})
  THEN Res(w, BindError)
  ELSE IF handle = None THEN Res(w, NotAttached("projects"))
  ELSE IF "get_tasks_for_project" \notin SelectorsAttrs
  THEN Res(w, AttrError("module 'context.selectors'", "get_tasks_for_project"))
  ELSE Res(w, Return(SelectSeq(w.tasks, LAMBDA t :
                 /\ t.project_id = args.project_id
                 /\ Get(args, "status", None) \in {None, t.status})))

\* mutant: line 162 reads ws.projects, so the task is appended
create_task_projects(w, handle, args) ==
  IF ~BindsTo(args, {"user_role", "project_id", "title"},
              {"user_role", "project_id", "title", "assignee_user_id",
               "due_date", "persona"})
  THEN Res(w, BindError)
  ELSE IF ~has_permission(args.user_role, "create_task")
  THEN Res(w, Raise("PermissionError",
                    <<"You do not have permission to create tasks.">>))
  ELSE IF handle = None THEN Res(w, NotAttached("projects"))
  ELSE IF FirstById(w.projects, args.project_id, 1) = 0
  THEN Res(w, Raise("ValueError", <<"Project '", args.project_id, "' not found.">>))
  ELSE Res([w EXCEPT !.tasks =
              Append(@, [id |-> _next_task_id(w),
                         project_id |-> args.project_id,
                         title |-> args.title,
                         status |-> "todo",
                         assignee_user_id |-> Get(args, "assignee_user_id", None),
                         due_date |-> Get(args, "due_date", None)])],
           Return([summary |-> <<"Created task '", args.title, "'">>]))

create_task(w, handle, args) ==
  IF ~BindsTo(args, {"user_role", "project_id", "title"},
              {"user_role", "project_id", "title", "assignee_user_id",
               "due_date", "persona"})
  THEN Res(w, BindError)
  ELSE IF ~has_permission(args.user_role, "create_task")
  THEN Res(w, Raise("PermissionError",
                    <<"You do not have permission to create tasks.">>))
  ELSE IF handle = None THEN Res(w, NotAttached("projects"))
  ELSE IF "project" \notin WorkspaceAttrs
  THEN Res(w, AttrError("'Workspace' object", "project"))
  ELSE IF FirstById(w.projects, args.project_id, 1) = 0
  THEN Res(w, Raise("ValueError", <<"Project '", args.project_id, "' not found.">>))
  ELSE
    LET task == [id |-> _next_task_id(w),
                 project_id |-> args.project_id,
                 title |-> args.title,
                 status |-> "todo",
                 assignee_user_id |-> Get(args, "assignee_user_id", None),
                 due_date |-> Get(args, "due_date", None)]
    IN Res([w EXCEPT !.tasks = Append(@, task)],
           Return([task |-> task, summary |-> <<"Created task '", task.title, "'">>]))

\* mutant: the permission check is skipped
move_task_noperm(w, handle, args) ==
  IF ~BindsTo(args, {"user_role", "task_query_or_id", "new_status"},
              {"user_role", "task_query_or_id", "new_status", "project_id",
               "persona"})
  THEN Res(w, BindError)
  ELSE IF handle = None THEN Res(w, NotAttached("projects"))
  ELSE IF ~_ensure_status_ok(args.new_status)
  THEN Res(w, Raise("ValueError", <<"Invalid status '", args.new_status, "'.">>))
  ELSE
    LET i == FirstById(w.tasks, args.task_query_or_id, 1)
    IN IF i = 0
       THEN Res(w, Raise("ValueError",
                         <<"Task '", args.task_query_or_id, "' not found.">>))
       ELSE Res([w EXCEPT !.tasks[i].status = NormStatus(args.new_status)],
                Return([task |-> [w.tasks[i] EXCEPT !.status = NormStatus(args.new_status)],
                        summary |-> <<"Moved">>]))

\* mutant: a query that resolves to no task moves the first task instead of
\* raising
move_task_first(w, handle, args) ==
  IF ~BindsTo(args, {"user_role", "task_query_or_id", "new_status"},
              {"user_role", "task_query_or_id", "new_status", "project_id",
               "persona"})
  THEN Res(w, BindError)
  ELSE IF ~has_permission(args.user_role, "move_task")
  THEN Res(w, Raise("PermissionError",
                    <<"You do not have permission to move tasks.">>))
  ELSE IF handle = None THEN Res(w, NotAttached("projects"))
  ELSE IF ~_ensure_status_ok(args.new_status)
  THEN Res(w, Raise("ValueError", <<"Invalid status '", args.new_status, "'.">>))
  ELSE
    LET byId == FirstById(w.tasks, args.task_query_or_id, 1)
        i == IF byId = 0 THEN 1 ELSE byId
    IN IF w.tasks = <<>>
       THEN Res(w, Return([task |-> None, summary |-> <<"Moved">>]))
       ELSE Res([w EXCEPT !.tasks[i].status = NormStatus(args.new_status)],
                Return([task |-> [w.tasks[i] EXCEPT !.status = NormStatus(args.new_status)],
                        summary |-> <<"Moved">>]))

move_task(w, handle, args) ==
  IF ~BindsTo(args, {"user_role", "task_query_or_id", "new_status"},
              {"user_role", "task_query_or_id", "new_status", "project_id",
               "persona"})
  THEN Res(w, BindError)
  ELSE IF ~has_permission(args.user_role, "move_task")
  THEN Res(w, Raise("PermissionError",
                    <<"You do not have permission to move tasks.">>))
  ELSE IF handle = None THEN Res(w, NotAttached("projects"))
  ELSE IF ~_ensure_status_ok(args.new_status)
  THEN Res(w, Raise("ValueError", <<"Invalid status '", args.new_status, "'.">>))
  ELSE
    LET i == FirstById(w.tasks, args.task_query_or_id, 1)
        byTitle == _resolve_task_by_title(w, args.task_query_or_id,
                                          Get(args, "project_id", None))
    IN IF i = 0
       THEN \* line 224 calls the resolver, line 225 raises whatever it found
            IF byTitle.kind = "raise" THEN Res(w, byTitle)
            ELSE Res(w, Raise("ValueError",
                              <<"Task '", args.task_query_or_id, "' not found.">>))
       ELSE Res([w EXCEPT !.tasks[i].status = NormStatus(args.new_status)],
                Return([task |-> [w.tasks[i] EXCEPT !.status = NormStatus(args.new_status)],
                        summary |-> <<"Moved '", w.tasks[i].title, "' from ",
                                      w.tasks[i].status, " to ",
                                      NormStatus(args.new_status), ".">>]))

(* ---------------- tools/ops.py ------------------------------------------ *)
\* the names tools/ops.py defines at module level
OpsGlobals ==
  {"_WS", "attach_workspace", "_require_ws", "_next_expenses_id", "_week_bounds",
   "_coerce_currency", "record_expenses", "weekly_summary", "Currency",
   "format_money", "has_permission", "Workspace", "date", "datetime", "timedelta"}

Currencies == {"USD", "GBP", "EUR"}

\* lines 47-62: the digits of the ids are read as for the task ids
ExpenseId(n) == CASE n = 1 -> "ex1" [] n = 2 -> "ex2" [] OTHER -> "ex3"

_next_expenses_id(w) == ExpenseId(BestTail(w.expenses, 0) + 1)

\* mutant: the expense is stored although no workspace is attached and the
\* id helper is missing
record_expenses_stored(w, handle, args) ==
  IF ~BindsTo(args, {"user_role", "amount", "currency", "description"},
              {"user_role", "amount", "currency", "description", "date_iso",
               "category", "project_id", "client_id", "persona"})
  THEN Res(w, BindError)
  ELSE IF ~has_permission(args.user_role, "record_expense")
  THEN Res(w, Raise("PermissionError",
                    <<"You do not have permission to record expenses.">>))
  ELSE IF args.currency \notin Currencies
  THEN Res(w, Raise("ValueError", <<"Unsupported currecnt '", args.currency, "'.">>))
  ELSE IF args.amount <= 0
  THEN Res(w, Raise("ValueError", <<"Amount must be positive.">>))
  ELSE Res([w EXCEPT !.expenses =
                Append(@, [id |-> _next_expenses_id(w),
                           project_id |-> Get(args, "project_id", None),
                           client_id |-> Get(args, "client_id", None),
                           amount |-> args.amount,
                           currency |-> args.currency,
                           date |-> Get(args, "date_iso", date_today)])],
           Return([summary |-> <<"Recorded">>]))

record_expenses(w, handle, args) ==
  IF ~BindsTo(args, {"user_role", "amount", "currency", "description"},
              {"user_role", "amount", "currency", "description", "date_iso",
               "category", "project_id", "client_id", "persona"})
  THEN Res(w, BindError)
  ELSE IF ~has_permission(args.user_role, "record_expense")
  THEN Res(w, Raise("PermissionError",
                    <<"You do not have permission to record expenses.">>))
  ELSE IF handle = None THEN Res(w, NotAttached("ops"))
  ELSE IF args.currency \notin Currencies
  THEN Res(w, Raise("ValueError", <<"Unsupported currecnt '", args.currency, "'.">>))
  ELSE IF args.amount <= 0
  THEN Res(w, Raise("ValueError", <<"Amount must be positive.">>))
  ELSE IF "_next_expense_id" \notin OpsGlobals
  THEN Res(w, NameErr("_next_expense_id"))
  ELSE Res([w EXCEPT !.expenses =
                Append(@, [id |-> _next_expenses_id(w),
                           project_id |-> Get(args, "project_id", None),
                           client_id |-> Get(args, "client_id", None),
                           amount |-> args.amount,
                           currency |-> args.currency,
                           date |-> Get(args, "date_iso", date_today)])],
           IF format_money(args.currency).kind = "raise"
           THEN format_money(args.currency)
           ELSE Return([summary |-> <<"Recorded">>]))

\* lines 64-73, for d the target or today
_week_bounds(d) ==
  [start |-> SubDays(d, Weekday(d)), end |-> AddDays(SubDays(d, Weekday(d)), 6)]

\* lines 208-212
in_window(window, d) == DateLeq(window.start, d) /\ DateLeq(d, window.end)

\* lines 214-274 once the window is known: the statement that ends the call.
\* An expense in the window is counted under the key "epenses" that no
\* bucket has; an invoice in the window is read under the key "total, 0.0";
\* a payment of an existing invoice is tested with the currency left by the
\* loop over the invoices and added under "payments_recieved_total"; the
\* loop over the buckets calls items().
Summarised(w, window) ==
  IF \E i \in 1..Len(w.expenses) :
       w.expenses[i].currency \in Currencies /\ in_window(window, w.expenses[i].date)
  THEN Res(w, Raise("KeyError", <<"epenses">>))
  ELSE IF \E i \in 1..Len(w.invoices) :
            w.invoices[i].currency \in Currencies
            /\ in_window(window, w.invoices[i].date)
  THEN Res(w, Raise("TypeError", <<"float() argument must be a string or a real number">>))
  ELSE IF \E i \in 1..Len(w.payments) :
            /\ FirstById(w.invoices, w.payments[i].invoice_id, 1) # 0
            /\ w.invoices[Len(w.invoices)].currency \in Currencies
            /\ in_window(window, w.payments[i].date)
  THEN Res(w, Raise("KeyError", <<"payments_recieved_total">>))
  ELSE IF "items" \notin OpsGlobals THEN Res(w, NameErr("items"))
  ELSE Res(w, Return([window |-> window, by_currency |-> Currencies]))

\* the keys of a bucket of by_ccy (lines 216-223)
BucketKeys ==
  {"expenses_total", "expenses_by_category", "invoices_issued_total",
   "payments_received_total", "counts"}

\* lines 247-257: the loop over the payments. ccy is the variable the loop
\* over the invoices left behind, since line 252 sits behind the continue
\* of line 251; totals maps a currency to [total, count].
RECURSIVE PaymentsLoop(_, _, _, _, _)
PaymentsLoop(invoices, payments, window, ccy, totals) ==
  IF payments = <<>> THEN Return(totals)
  ELSE IF FirstById(invoices, Head(payments).invoice_id, 1) = 0
  THEN PaymentsLoop(invoices, Tail(payments), window, ccy, totals)
  ELSE IF ccy \notin Currencies
  THEN PaymentsLoop(invoices, Tail(payments), window, ccy, totals)
  ELSE IF ~in_window(window, Head(payments).date)
  THEN PaymentsLoop(invoices, Tail(payments), window, ccy, totals)
  ELSE IF "payments_recieved_total" \notin BucketKeys
  THEN Raise("KeyError", <<"payments_recieved_total">>)
  ELSE PaymentsLoop(invoices, Tail(payments), window, ccy,
                    [totals EXCEPT ![ccy] =
                       [total |-> @.total + Head(payments).amount,
                        count |-> @.count + 1]])

\* lines 199-206; a date argument of the model is never None or empty, so
\* "start_date and end_date" holds exactly when both are passed
weekly_summary(w, handle, args) ==
  IF ~BindsTo(args, {}, {"start_date", "end_date"})
  THEN Res(w, BindError)
  ELSE IF handle = None THEN Res(w, NotAttached("ops"))
  ELSE Summarised(w, IF {"start_date", "end_date"} \subseteq DOMAIN args
                     THEN [start |-> args.start_date, end |-> args.end_date]
                     ELSE _week_bounds(date_today))

(* ---------------- orchestrator/router.py : _execute_tool ---------------- *)
ToolResult(name, ok, output, error) ==
  [name |-> name, ok |-> ok, output |-> output, error |-> error]

\* the branch of the if/elif chain taken for a name: the tool function that
\* runs, as the workspace after it and its outcome; "unknown" for the else
Dispatched(w, h, name, args) ==
  CASE name = "find_client"       -> find_client(w, h.crm, args)
    [] name = "creative_invoice"  -> create_invoice(w, h.crm, args)
    [] name = "chase_late_payers" -> chase_late_payers(w, h.crm, args)
    [] name = "list_tasks"        -> create_task(w, h.projects, args)
    [] name = "create_task"       -> create_task(w, h.projects, args)
    [] name = "move_task"         -> move_task(w, h.projects, args)
    [] name = "record_expenses"   -> record_expenses(w, h.ops, args)
    [] name = "weekly_summary"    -> weekly_summary(w, h.ops, args)
    [] OTHER                      -> Res(w, Raise("unknown", <<"Unknown tool: ", name>>))

\* mutant: the message of the exception is dropped
TryExcept_nomsg(name, r) ==
  IF r.out.kind = "raise"
  THEN Res(r.ws, Return(ToolResult(name, FALSE, None, <<>>)))
  ELSE Res(r.ws, Return(ToolResult(name, TRUE, r.out.value, None)))

\* lines 169, 188-190: the try block around the call; r is how the branch
\* taken ended
TryExcept(name, r) ==
  IF r.out.kind = "raise"
  THEN Res(r.ws, Return(ToolResult(name, FALSE, None, r.out.msg)))
  ELSE Res(r.ws, Return(ToolResult(name, TRUE, r.out.value, None)))

\* without the except clause only the else branch still returns a result
NoExcept(name, r) ==
  IF r.out.kind = "raise" /\ r.out.exc # "unknown" THEN r ELSE TryExcept(name, r)

\* mutant: an exception of the tool leaves the bridge
_execute_tool_nocatch(w, h, name, args) ==
  NoExcept(name, Dispatched(w, h, name, args))

_execute_tool(w, h, name, args) ==
  TryExcept(name, Dispatched(w, h, name, args))

(* ---------------- orchestrator/llm_openai.py ---------------------------- *)
\* the names orchestrator/llm_openai.py defines at module level
LlmGlobals ==
  {"os", "json", "Any", "Dict", "List", "Optional", "OpenAI", "client",
   "Default_Model", "call_model", "extract_tool_calls"}

\* the attributes of a chat completion response
ResponseAttrs == {"id", "choices", "created", "model", "object", "usage"}

\* The scripted model: script[k] answers the k-th request that offers tools,
\* rest answers the later ones, forced answers a request without tools.
\* An answer is [kind |-> "fail"] (the transport fails) or
\* [kind |-> "ok", tool_calls |-> <<..>>, content |-> text].
Answer(stub, n, tools) ==
  IF ~tools THEN stub.forced
  ELSE IF n <= Len(stub.script) THEN stub.script[n] ELSE stub.rest

\* call_model: the n-th request of the run; sent counts the requests that
\* reached the endpoint
call_model(stub, n, tools) ==
  IF "DEFAULT_MODEL" \notin LlmGlobals
  THEN [out |-> NameErr("DEFAULT_MODEL"), sent |-> 0]
  ELSE IF Answer(stub, n, tools).kind = "fail"
  THEN [out |-> Raise("TransportFailure", <<"connection error">>), sent |-> 1]
  ELSE [out |-> Return(Answer(stub, n, tools)), sent |-> 1]

\* json.loads(tc.function.arguments or "{}"), {} when it does not parse
ParsedArguments(tc) == IF tc.parses THEN tc.arguments ELSE [k \in {} |-> "None"]

extract_tool_calls(message) ==
  LET fns == SelectSeq(message.tool_calls, LAMBDA tc : tc.type = "function")
  IN [i \in 1..Len(fns) |->
        [name |-> fns[i].name, arguments |-> ParsedArguments(fns[i]),
         id |-> fns[i].id]]

(* ---------------- orchestrator/router.py : run -------------------------- *)
\* the names visible in the body of run: its parameters and locals, and the
\* module-level names of orchestrator/router.py
RunScope ==
  {"user_text", "persona", "currency", "extra_context", "max_tootl_rounds",
   "system_prompt", "messages", "tool_specs", "audit",
   "json", "Any", "Dict", "List", "Optional", "Callable", "datetime",
   "call_model", "extract_tool_calls", "ToolCall", "ToolResult", "AuditEntry",
   "OrchestratorResult", "prompts", "DEFAULT_CURRENCY", "DEFAULT_PERSONA",
   "crm", "projects", "ops", "_tool_spec", "get_tools_and_specs",
   "_execute_tool", "run"}

AuditEntry(step, ok, detail, tool_call, tool_result) ==
  [step |-> step, ok |-> ok, detail |-> detail, tool_call |-> tool_call,
   tool_result |-> tool_result]

\* f"model_round_{round_idx+1}"
RoundStep(n) ==
  CASE n = 1 -> "model_round_1" [] n = 2 -> "model_round_2"
    [] n = 3 -> "model_round_3" [] OTHER -> "model_round_n"

InitialMessages(user_text) ==
  <<[role |-> "system", content |-> "persona prompt"],
    [role |-> "system", content |-> "Default currency"],
    [role |-> "user", content |-> user_text]>>

\* lines 226-237: the audit entries and the message of one executed call;
\* r is what _execute_tool returned for it
AfterCall(st, tc_raw, r) ==
  [ws |-> r.ws,
   messages |-> Append(st.messages,
                       [role |-> "tool", tool_call_id |-> tc_raw.id,
                        name |-> tc_raw.name, content |-> r.out.value]),
   audit |-> st.audit \o
             <<AuditEntry("tool_call", TRUE, <<"Calling ", tc_raw.name>>,
                          [name |-> tc_raw.name, arguments |-> tc_raw.arguments],
                          None),
               AuditEntry("tool_result", r.out.value.ok,
                          IF r.out.value.ok THEN <<"ok">>
                          ELSE IF r.out.value.error = <<>> THEN <<"error">>
                          ELSE r.out.value.error,
                          [name |-> tc_raw.name, arguments |-> tc_raw.arguments],
                          r.out.value)>>,
   sent |-> st.sent, rounds |-> st.rounds]

\* lines 225-237: the tool calls of one response, in order; st holds the
\* workspace, the conversation and the audit log
RECURSIVE ExecuteCalls(_, _, _)
ExecuteCalls(st, h, tool_calls) ==
  IF tool_calls = <<>> THEN st
  ELSE ExecuteCalls(
         AfterCall(st, Head(tool_calls),
                   _execute_tool(st.ws, h, Head(tool_calls).name,
                                 Head(tool_calls).arguments)),
         h, Tail(tool_calls))

RunEnd(st, out) ==
  [ws |-> st.ws, out |-> out, sent |-> st.sent, rounds |-> st.rounds]

OrchestratorResult(summary, messages, audit) ==
  [summary |-> summary, messages |-> messages, audit |-> audit]

TextOf(message) == IF message.content = "" THEN "(no content)" ELSE message.content

Sent(st, c) == [st EXCEPT !.sent = @ + c.sent]

\* lines 240-243: c is what the request without tools gave
AfterForced(st, c) ==
  IF c.out.kind = "raise" THEN RunEnd(st, c.out)
  ELSE IF "choice" \notin ResponseAttrs
  THEN RunEnd(st, AttrError("'ChatCompletion' object", "choice"))
  ELSE RunEnd(st,
         Return(OrchestratorResult(
           TextOf(c.out.value),
           Append(st.messages, [role |-> "assistant",
                                content |-> c.out.value.content]),
           Append(st.audit,
                  AuditEntry("max_rounds_reached", TRUE,
                             <<"Stopped after max rounds; summerised.">>,
                             None, None)))))

\* lines 238-243: the request without tools after the last round
ForcedSummary(st, stub) ==
  AfterForced(Sent(st, call_model(stub, st.sent + 1, FALSE)),
              call_model(stub, st.sent + 1, FALSE))

\* lines 219-222: the response has no tool call
NoToolCall(st, message, round_idx) ==
  RunEnd(st,
    Return(OrchestratorResult(
      TextOf(message),
      Append(st.messages, [role |-> "assistant", content |-> message.content]),
      Append(st.audit,
             AuditEntry(RoundStep(round_idx + 1), TRUE,
                        <<"No tool call: returning text.">>, None, None)))))

RoundDone(st) == [st EXCEPT !.rounds = @ + 1]

\* lines 213-237: round round_idx (from 0) of max_tool_rounds; AfterModel
\* takes up a round with c, what call_model gave
RECURSIVE Rounds(_, _, _, _, _)
RECURSIVE AfterModel(_, _, _, _, _, _)
AfterModel(st, h, stub, round_idx, max_tool_rounds, c) ==
  IF c.out.kind = "raise" THEN RunEnd(st, c.out)
  ELSE IF extract_tool_calls(c.out.value) = <<>>
  THEN NoToolCall(st, c.out.value, round_idx)
  ELSE Rounds(RoundDone(ExecuteCalls(st, h, extract_tool_calls(c.out.value))),
              h, stub, round_idx + 1, max_tool_rounds)

Rounds(st, h, stub, round_idx, max_tool_rounds) ==
  IF round_idx >= max_tool_rounds THEN ForcedSummary(st, stub)
  ELSE AfterModel(Sent(st, call_model(stub, st.sent + 1, TRUE)), h, stub,
                  round_idx, max_tool_rounds,
                  call_model(stub, st.sent + 1, TRUE))

\* run(user_text, max_tootl_rounds=...): the loop header reads max_tool_rounds
run(w, h, stub, user_text, max_tootl_rounds) ==
  LET st == [ws |-> w, messages |-> InitialMessages(user_text), audit |-> <<>>,
             sent |-> 0, rounds |-> 0]
  IN IF "max_tool_rounds" \notin RunScope
     THEN RunEnd(st, NameErr("max_tool_rounds"))
     ELSE Rounds(st, h, stub, 0, max_tootl_rounds)

(* ---------------- inputs ------------------------------------------------ *)
\* the round budget run() declares as its default
DefaultRounds == 3

NoArgs == [k \in {} |-> None]

Line == [description |-> "Retainer", qty |-> 1, unit_price |-> 1200]

HasPermissionArgs ==
  {[user_role |-> r, action |-> a] :
     r \in Roles, a \in DOMAIN ACTION_MATRIX \cup {"nonexistent_action", "list_tasks"}}

CreateInvoiceArgs ==
  {[user_role |-> r, client_id |-> c, currency |-> y, vat_rate |-> 20,
    line_items |-> <<Line>>] :
     r \in Roles, c \in {"c1", "c9"}, y \in {"GBP"}}

ChaseArgs ==
  {[user_role |-> r] : r \in Roles}
  \cup {[user_role |-> r, today |-> <<2025, 1, 20>>] : r \in Roles}

FindClientArgs ==
  {[query |-> "Acme Ltd"], [query |-> "Acme Ltd", top_k |-> 1],
   [query |-> "Acme Ltd", graph |-> NoGraph]}

ListTasksArgs == {[project_id |-> "p1"], [project_id |-> "p1", status |-> "todo"]}

CreateTaskArgs ==
  {[user_role |-> r, project_id |-> p, title |-> "New task"] :
     r \in Roles, p \in {"p1", "p9"}}

TaskQueries == {"t1", "Hire designer"}

StatusInputs == {"done", " Doing ", "archived"}

MoveTaskArgs ==
  {[user_role |-> r, task_query_or_id |-> q, new_status |-> s] :
     r \in Roles, q \in TaskQueries, s \in StatusInputs}
  \cup
  {[user_role |-> r, task_query_or_id |-> q, new_status |-> s, project_id |-> p] :
     r \in Roles, q \in TaskQueries, s \in StatusInputs, p \in {"p2"}}

RecordExpenseArgs ==
  {[user_role |-> r, amount |-> a[1], currency |-> a[2],
    description |-> "Stock photos"] :
     r \in Roles, a \in {<<5, "GBP">>, <<0, "GBP">>, <<5, "XXX">>}}
  \cup
  {[user_role |-> r, amount |-> 5, currency |-> "GBP",
    description |-> "Stock photos", project_id |-> "p9", client_id |-> "c9"] :
     r \in Roles}

WeeklySummaryArgs ==
  {NoArgs, [start_date |-> <<2025, 1, 6>>], [end_date |-> <<2025, 1, 12>>],
   [start_date |-> <<2025, 1, 6>>, end_date |-> <<2025, 1, 12>>]}

\* the names a model may ask for: the advertised ones, the ones the bridge
\* tests for, and one that is neither
ToolNames ==
  {"find_client", "create_invoice", "chase_late_payers", "list_tasks",
   "create_task", "move_task", "record_expense", "weekly_summary",
   "creative_invoice", "record_expenses", "frobnicate"}

\* the arguments the advertised schema of a tool name describes
SchemaArgs(name) ==
  CASE name = "find_client" -> FindClientArgs
    [] name \in {"create_invoice", "creative_invoice"} -> CreateInvoiceArgs
    [] name = "chase_late_payers" -> ChaseArgs
    [] name = "list_tasks" -> ListTasksArgs
    [] name = "create_task" -> CreateTaskArgs
    [] name = "move_task" -> MoveTaskArgs
    [] name \in {"record_expense", "record_expenses"} -> RecordExpenseArgs
    [] name = "weekly_summary" -> WeeklySummaryArgs
    [] OTHER -> {}

\* what a model may send with a name: arguments of its schema, none at all,
\* or the arguments of another tool
ToolArgs(name) ==
  SchemaArgs(name)
  \cup {NoArgs, [user_role |-> "owner", project_id |-> "p1", title |-> "New task"]}

(* ---------------- seed workspaces --------------------------------------- *)
Clients ==
  <<[id |-> "c1", name |-> "Acme Ltd", currency |-> "GBP"],
    [id |-> "c2", name |-> "Globex", currency |-> "USD"]>>

Projects ==
  <<[id |-> "p1", client_id |-> "c1", status |-> "active"],
    [id |-> "p2", client_id |-> "c2", status |-> "paused"]>>

SeedTasks ==
  <<[id |-> "t1", project_id |-> "p1", title |-> "Hire designer",
     status |-> "todo", assignee_user_id |-> "u1", due_date |-> None],
    [id |-> "t2", project_id |-> "p1", title |-> "Draft brief",
     status |-> "doing", assignee_user_id |-> None, due_date |-> None]>>

SeedInvoice ==
  [id |-> <<"i", "n", "v", "_", "2", "0", "2", "5", "_", "0", "8", "1">>,
   client_id |-> "c1",
   number |-> <<"I", "N", "V", "-", "2", "0", "2", "5", "-", "0", "8", "1">>,
   date |-> <<2025, 1, 1>>, due_days |-> 14, currency |-> "GBP",
   vat_rate |-> 20, line_items |-> <<Line>>, status |-> "draft",
   subtotal |-> 1200, vat |-> 240, total |-> 1440]

Workspace(tasks, invoices) ==
  [users |-> <<[id |-> "u1", role |-> "owner"]>>,
   clients |-> Clients, projects |-> Projects, tasks |-> tasks,
   invoices |-> invoices, payments |-> <<>>, expenses |-> <<>>]

Seeds ==
  {Workspace(SeedTasks, <<SeedInvoice>>), Workspace(SeedTasks, <<>>),
   Workspace(<<>>, <<SeedInvoice>>)}

(* ---------------- scripted models --------------------------------------- *)
Call(name, arguments, id) ==
  [type |-> "function", name |-> name, arguments |-> arguments, parses |-> TRUE,
   id |-> id]

Tools(calls) == [kind |-> "ok", tool_calls |-> calls, content |-> ""]

Text(content) == [kind |-> "ok", tool_calls |-> <<>>, content |-> content]

Fail == [kind |-> "fail", tool_calls |-> <<>>, content |-> ""]

MoveT1 ==
  Call("move_task",
       [user_role |-> "owner", task_query_or_id |-> "t1", new_status |-> "done"],
       "call_1")

CreateNew ==
  Call("create_task",
       [user_role |-> "owner", project_id |-> "p1", title |-> "New task"],
       "call_2")

MoveNew ==
  Call("move_task",
       [user_role |-> "owner", task_query_or_id |-> "t3", new_status |-> "doing"],
       "call_3")

Frobnicate == Call("frobnicate", NoArgs, "call_4")

StubAlways == [script |-> <<>>, rest |-> Tools(<<MoveT1>>), forced |-> Text("forced summary")]

StubOneThenText ==
  [script |-> <<Tools(<<MoveT1>>)>>, rest |-> Text("all done"),
   forced |-> Text("forced summary")]

StubTwoCalls ==
  [script |-> <<Tools(<<CreateNew, MoveNew>>)>>, rest |-> Text("all done"),
   forced |-> Text("forced summary")]

StubUnknown ==
  [script |-> <<Tools(<<Frobnicate>>)>>, rest |-> Text("all done"),
   forced |-> Text("forced summary")]

StubFailFirst == [script |-> <<>>, rest |-> Fail, forced |-> Fail]

StubFailSecond ==
  [script |-> <<Tools(<<MoveT1>>)>>, rest |-> Fail, forced |-> Fail]

StubFailForced == [script |-> <<>>, rest |-> Tools(<<MoveT1>>), forced |-> Fail]

Stubs ==
  {StubAlways, StubOneThenText, StubTwoCalls, StubUnknown, StubFailFirst,
   StubFailSecond, StubFailForced}

(* ---------------- the session ------------------------------------------- *)
Handles == [crm |-> crm_WS, projects |-> projects_WS, ops |-> ops_WS]

Last(op, args, r) ==
  [op |-> op, args |-> args, before |-> ws, out |-> r.out, sent |-> 0, rounds |-> 0]

Init ==
  /\ ws \in Seeds
  /\ date_today \in Todays
  /\ crm_WS = None
  /\ projects_WS = None
  /\ ops_WS = None
  /\ last = [op |-> "load_workspace", args |-> NoArgs, before |-> ws,
             out |-> Return(None), sent |-> 0, rounds |-> 0]

\* crm.attach_workspace(we): the body assigns _WS to itself
crm_attach_workspace ==
  /\ crm_WS' = crm_WS
  /\ last' = Last("crm.attach_workspace", NoArgs, Res(ws, Return(None)))
  /\ UNCHANGED <<ws, projects_WS, ops_WS, date_today>>

projects_attach_workspace ==
  /\ projects_WS' = "ws"
  /\ last' = Last("projects.attach_workspace", NoArgs, Res(ws, Return(None)))
  /\ UNCHANGED <<ws, crm_WS, ops_WS, date_today>>

\* ops.attach_workspace(ws): the body is the expression _WS
ops_attach_workspace ==
  /\ ops_WS' = ops_WS
  /\ last' = Last("ops.attach_workspace", NoArgs, Res(ws, Return(None)))
  /\ UNCHANGED <<ws, crm_WS, projects_WS, date_today>>

Direct(op, r, args) ==
  /\ ws' = r.ws
  /\ last' = Last(op, args, r)
  /\ UNCHANGED <<crm_WS, projects_WS, ops_WS, date_today>>

call_has_permission ==
  \E a \in HasPermissionArgs :
    Direct("has_permission", Res(ws, Return(has_permission(a.user_role, a.action))), a)

call_find_client ==
  \E a \in FindClientArgs : Direct("find_client", find_client(ws, crm_WS, a), a)

call_create_invoice ==
  \E a \in CreateInvoiceArgs :
    Direct("create_invoice", create_invoice(ws, crm_WS, a), a)

call_chase_late_payers ==
  \E a \in ChaseArgs :
    Direct("chase_late_payers", chase_late_payers(ws, crm_WS, a), a)

call_list_tasks ==
  \E a \in ListTasksArgs : Direct("list_tasks", list_tasks(ws, projects_WS, a), a)

call_create_task ==
  \E a \in CreateTaskArgs : Direct("create_task", create_task(ws, projects_WS, a), a)

call_move_task ==
  \E a \in MoveTaskArgs : Direct("move_task", move_task(ws, projects_WS, a), a)

call_record_expenses ==
  \E a \in RecordExpenseArgs :
    Direct("record_expenses", record_expenses(ws, ops_WS, a), a)

call_weekly_summary ==
  \E a \in WeeklySummaryArgs :
    Direct("weekly_summary", weekly_summary(ws, ops_WS, a), a)

call_execute_tool ==
  \E name \in ToolNames : \E a \in ToolArgs(name) :
    Direct("_execute_tool", _execute_tool(ws, Handles, name, a),
           [name |-> name, arguments |-> a])

call_run ==
  \E stub \in Stubs :
    LET r == run(ws, Handles, stub, "move t1 to done", DefaultRounds)
    IN /\ ws' = r.ws
       /\ last' = [op |-> "run", args |-> stub, before |-> ws, out |-> r.out,
                   sent |-> r.sent, rounds |-> r.rounds]
       /\ UNCHANGED <<crm_WS, projects_WS, ops_WS, date_today>>

Next ==
  \/ crm_attach_workspace
  \/ projects_attach_workspace
  \/ ops_attach_workspace
  \/ call_has_permission
  \/ call_find_client
  \/ call_create_invoice
  \/ call_chase_late_payers
  \/ call_list_tasks
  \/ call_create_task
  \/ call_move_task
  \/ call_record_expenses
  \/ call_weekly_summary
  \/ call_execute_tool
  \/ call_run

Spec == Init /\ [][Next]_vars

(* ---------------- invoice numbering on its own -------------------------- *)
Years == {2025, 2026}

InitNumbering ==
  /\ ws \in Seeds
  /\ date_today \in Todays
  /\ crm_WS = None
  /\ projects_WS = None
  /\ ops_WS = None
  /\ last = [op |-> "load_workspace", args |-> NoArgs, before |-> ws,
             out |-> Return(None), sent |-> 0, rounds |-> 0]

\* lines 257-284 of create_invoice: the number of the next invoice is
\* computed from the numbers in the workspace and the invoice is appended;
\* last.before keeps the seed and last.rounds counts the invoices created
number_invoice ==
  \E year \in Years, c \in {"c1", "c2"}, y \in {"GBP", "USD"} :
    LET invoice == NewInvoice(ws, c, y, 20, <<Line>>, 14, <<year, 1, 15>>)
    IN /\ last.rounds < MaxCreated
       /\ ws' = [ws EXCEPT !.invoices = Append(@, invoice)]
       /\ last' = [op |-> "number_invoice",
                   args |-> [year |-> year, client_id |-> c, currency |-> y],
                   before |-> last.before, out |-> Return(invoice.number),
                   sent |-> 0, rounds |-> last.rounds + 1]
       /\ UNCHANGED <<crm_WS, projects_WS, ops_WS, date_today>>

NextNumbering == number_invoice

SpecNumbering == InitNumbering /\ [][NextNumbering]_vars

(* ---------------- invoice totals on their own --------------------------- *)
TotalLines ==
  {[description |-> "Item", qty |-> q, unit_price |-> p] :
     q \in {1, 2}, p \in {15, 30, 50}}

LineItemsInputs ==
  {<<l>> : l \in TotalLines} \cup {<<l, m>> : l \in TotalLines, m \in TotalLines}

VatRates == {0, 5, 20, 50}

InitTotals ==
  /\ ws \in Seeds
  /\ date_today \in Todays
  /\ crm_WS = None
  /\ projects_WS = None
  /\ ops_WS = None
  /\ last = [op |-> "load_workspace", args |-> NoArgs, before |-> ws,
             out |-> Return(None), sent |-> 0, rounds |-> 0]

\* line 264 of create_invoice: totals = _compute_totals(line_items, vat_rate)
compute_totals ==
  \E line_items \in LineItemsInputs, vat_rate \in VatRates :
    /\ last' = [op |-> "_compute_totals",
                args |-> [line_items |-> line_items, vat_rate |-> vat_rate],
                before |-> last.before,
                out |-> Return(_compute_totals(line_items, vat_rate)),
                sent |-> 0, rounds |-> 0]
    /\ UNCHANGED <<ws, crm_WS, projects_WS, ops_WS, date_today>>

NextTotals == compute_totals

SpecTotals == InitTotals /\ [][NextTotals]_vars

(* ---------------- the overdue test on its own --------------------------- *)
OverdueInvoices ==
  {[SeedInvoice EXCEPT !.due_days = n, !.status = st] :
     n \in {7, 14, 30}, st \in {"draft", "sent", "paid"}}

InitOverdue ==
  /\ ws \in {Workspace(SeedTasks, <<inv>>) : inv \in OverdueInvoices}
  /\ date_today \in Todays
  /\ crm_WS = None
  /\ projects_WS = None
  /\ ops_WS = None
  /\ last = [op |-> "load_workspace", args |-> NoArgs, before |-> ws,
             out |-> Return(None), sent |-> 0, rounds |-> 0]

\* line 333 of chase_late_payers: selectors.get_overdue_invoices(ws, today=today)
overdue_invoices ==
  \E day \in {<<2025, 1, 10>>, <<2025, 1, 16>>, <<2025, 1, 20>>, <<2025, 2, 5>>} :
    /\ last' = [op |-> "get_overdue_invoices", args |-> [today |-> day],
                before |-> last.before,
                out |-> Return(get_overdue_invoices(ws, day)),
                sent |-> 0, rounds |-> 0]
    /\ UNCHANGED <<ws, crm_WS, projects_WS, ops_WS, date_today>>

\* lines 335-338 and 353-356 of chase_late_payers without the body of the
\* message: the reminders of the invoices the selector reports
draft_reminders ==
  \E day \in {<<2025, 1, 10>>, <<2025, 1, 16>>, <<2025, 1, 20>>, <<2025, 2, 5>>} :
    /\ last' = [op |-> "chase_late_payers.reminders", args |-> [today |-> day],
                before |-> last.before,
                out |-> Return([i \in 1..Len(get_overdue_invoices(ws, day)) |->
                                  Reminder(ws, get_overdue_invoices(ws, day)[i])]),
                sent |-> 0, rounds |-> 0]
    /\ UNCHANGED <<ws, crm_WS, projects_WS, ops_WS, date_today>>

NextOverdue == overdue_invoices \/ draft_reminders

SpecOverdue == InitOverdue /\ [][NextOverdue]_vars

(* ---------------- the payments of weekly_summary on their own ----------- *)
UsdInvoice ==
  [SeedInvoice EXCEPT !.id = <<"i", "n", "v", "_", "2", "0", "2", "5", "_", "0", "8", "2">>,
                      !.currency = "USD"]

PaymentInvoices ==
  {<<>>, <<SeedInvoice>>, <<SeedInvoice, UsdInvoice>>, <<UsdInvoice, SeedInvoice>>}

Payments ==
  {[id |-> "pay1", invoice_id |-> i, date |-> d, amount |-> 1440] :
     i \in {SeedInvoice.id, UsdInvoice.id,
            <<"i", "n", "v", "_", "2", "0", "2", "5", "_", "0", "0", "9">>},
     d \in {<<2025, 1, 29>>, <<2025, 1, 1>>}}

PaymentInputs ==
  {<<p>> : p \in Payments} \cup {<<p, q>> : p \in Payments, q \in Payments}

InitPayments ==
  /\ ws \in {[Workspace(SeedTasks, invs) EXCEPT !.payments = ps] :
               invs \in PaymentInvoices, ps \in PaymentInputs}
  /\ date_today \in Todays
  /\ crm_WS = None
  /\ projects_WS = None
  /\ ops_WS = None
  /\ last = [op |-> "load_workspace", args |-> NoArgs, before |-> ws,
             out |-> Return(None), sent |-> 0, rounds |-> 0]

\* lines 247-257 of weekly_summary, after the loop over the invoices
payments_received ==
  \E window \in {_week_bounds(date_today),
                 [start |-> <<2025, 1, 1>>, end |-> <<2025, 1, 31>>]} :
    /\ last' = [op |-> "weekly_summary.payments", args |-> [window |-> window],
                before |-> last.before,
                out |-> PaymentsLoop(ws.invoices, ws.payments, window,
                                     IF ws.invoices = <<>> THEN None
                                     ELSE ws.invoices[Len(ws.invoices)].currency,
                                     [c \in Currencies |-> [total |-> 0, count |-> 0]]),
                sent |-> 0, rounds |-> 0]
    /\ UNCHANGED <<ws, crm_WS, projects_WS, ops_WS, date_today>>

NextPayments == payments_received

SpecPayments == InitPayments /\ [][NextPayments]_vars

(* ---------------- the ranking of find_client on its own ----------------- *)
\* what find_client_candidates returns: clients with their scores, best first
FuzzyInputs ==
  {<<[client |-> Clients[1], score |-> a]>> : a \in {90, 80}}
  \cup {<<[client |-> Clients[i], score |-> a],
          [client |-> Clients[3 - i], score |-> b]>> :
          i \in {1, 2}, a \in {90, 80}, b \in {80, 75, 70}}

Successors(projects, invoices) == [projects |-> projects, invoices |-> invoices]

\* relevance graphs: what hangs off c1 and off c2
Graphs ==
  {[kind |-> "DiGraph", successors |-> [c1 |-> a, c2 |-> b]] :
     a \in {Successors(<<>>, <<>>), Successors(<<"paused">>, <<<<2024, 6, 1>>>>)},
     b \in {Successors(<<>>, <<>>), Successors(<<"active">>, <<>>),
            Successors(<<>>, <<<<2025, 1, 20>>>>),
            Successors(<<"paused", "active">>, <<<<2025, 1, 20>>>>)}}
  \cup {NoGraph}

InitRanking ==
  /\ ws = Workspace(SeedTasks, <<SeedInvoice>>)
  /\ date_today \in Todays
  /\ crm_WS = None
  /\ projects_WS = None
  /\ ops_WS = None
  /\ last = [op |-> "load_workspace", args |-> NoArgs, before |-> ws,
             out |-> Return(None), sent |-> 0, rounds |-> 0]

\* lines 181-203 of find_client, after find_client_candidates has answered
rank_clients ==
  \E fuzzy \in FuzzyInputs, graph \in Graphs, top_k \in 1..2 :
    /\ Len(fuzzy) <= top_k * 2
    /\ last' = [op |-> "find_client.rank",
                args |-> [fuzzy |-> fuzzy, graph |-> graph, top_k |-> top_k],
                before |-> last.before,
                out |-> Return(RankedClients(fuzzy, graph, top_k)),
                sent |-> 0, rounds |-> 0]
    /\ UNCHANGED <<ws, crm_WS, projects_WS, ops_WS, date_today>>

NextRanking == rank_clients

SpecRanking == InitRanking /\ [][NextRanking]_vars

(* ======================= the claims ===================================== *)
IsRun(stub) == last.op = "run" /\ last.args = stub

AuditSteps(audit) == [i \in 1..Len(audit) |-> audit[i].step]

\* C1: with the default budget of 3 and a model that asks for a tool in
\* every response, run() does exactly 3 tool rounds, then one request without
\* tools whose text it returns, 4 requests in all.
C1_ThreeRoundsThenForced ==
  IsRun(StubAlways) =>
    /\ last.out.kind = "return"
    /\ last.rounds = 3
    /\ last.sent = 4
    /\ last.out.value.summary = "forced summary"

\* C2: one tool call, then text: the audit log is tool call issued, tool
\* call completed, no tool call, and the summary is the text.
C2_AuditOfOneCall ==
  IsRun(StubOneThenText) =>
    /\ last.out.kind = "return"
    /\ AuditSteps(last.out.value.audit) = <<"tool_call", "tool_result", "model_round_2">>
    /\ last.out.value.summary = "all done"

\* C3: the calls of one response run in the order received and a later call
\* sees what an earlier one wrote: create_task then move_task of the new task
\* ends with the new task in the asked status.
C3_LaterCallSeesEarlier ==
  (IsRun(StubTwoCalls) /\ projects_WS = "ws" /\ last.before.tasks = SeedTasks) =>
    /\ last.out.kind = "return"
    /\ Len(last.out.value.audit) = 5
    /\ last.out.value.audit[1].tool_call.name = "create_task"
    /\ last.out.value.audit[3].tool_call.name = "move_task"
    /\ last.out.value.audit[4].ok
    /\ Len(ws.tasks) = 3
    /\ ws.tasks[3].status = "doing"

\* C4: an unregistered tool name gives a failed Tool Result naming the tool,
\* which is appended to the conversation, and the loop goes on to its next
\* round.
C4_UnknownToolNotFatal ==
  IsRun(StubUnknown) =>
    /\ last.out.kind = "return"
    /\ last.sent = 2
    /\ \E i \in 1..Len(last.out.value.messages) :
         /\ last.out.value.messages[i].role = "tool"
         /\ ~last.out.value.messages[i].content.ok
         /\ last.out.value.messages[i].content.error = <<"Unknown tool: ", "frobnicate">>

ToolRaised(out) == out.kind = "raise"

\* C5: whatever a tool raises is caught by _execute_tool and becomes a Tool
\* Result with ok = false and the message of the error; when run() ends with
\* an error, it is never the error of a tool.
C5_ToolErrorsCaught ==
  /\ last.op = "_execute_tool" =>
       /\ last.out.kind = "return"
       /\ last.out.value.name = last.args.name
       /\ ToolRaised(Dispatched(last.before, Handles, last.args.name,
                                last.args.arguments).out) =>
            /\ ~last.out.value.ok
            /\ last.out.value.output = None
            /\ last.out.value.error =
                 Dispatched(last.before, Handles, last.args.name,
                            last.args.arguments).out.msg
  /\ (last.op = "run" /\ last.out.kind = "raise") =>
       last.out.exc \in {"NameError", "TransportFailure"}

C5_Witness ==
  /\ last.op = "_execute_tool"
  /\ last.args.name = "move_task"
  /\ last.args.arguments \in MoveTaskArgs
  /\ last.args.arguments.user_role = "viewer"
  /\ last.out.kind = "return"
  /\ ~last.out.value.ok
  /\ last.out.value.error = <<"You do not have permission to move tasks.">>

\* C6: a model call that fails, in a round or in the final request, is not
\* caught by run(): the transport failure reaches the caller and there is no
\* result.
C6_TransportFailurePropagates ==
  (last.op = "run" /\ last.args \in {StubFailFirst, StubFailSecond, StubFailForced}) =>
    /\ last.out.kind = "raise"
    /\ last.out.exc = "TransportFailure"

\* C7: the permission gate fails closed: viewer may not create_invoice, owner
\* may, and an action that is not in the matrix is denied to every role.
C7_FailClosed ==
  last.op = "has_permission" =>
    /\ (last.args.user_role = "viewer" /\ last.args.action = "create_invoice")
         => last.out.value = FALSE
    /\ (last.args.user_role = "owner" /\ last.args.action = "create_invoice")
         => last.out.value = TRUE
    /\ last.args.action \notin DOMAIN ACTION_MATRIX => last.out.value = FALSE

C7_Witness ==
  /\ last.op = "has_permission"
  /\ last.args.action = "nonexistent_action"
  /\ last.args.user_role = "owner"
  /\ last.out.value = FALSE

\* the action each mutating tool requires
RequiredAction(op) ==
  CASE op = "create_invoice" -> "create_invoice"
    [] op = "create_task" -> "create_task"
    [] op = "move_task" -> "move_task"
    [] op = "record_expenses" -> "record_expense"

MutatingTools == {"create_invoice", "create_task", "move_task", "record_expenses"}

\* C8: a call of a mutating tool by a role that lacks the required action
\* fails with a permission error and leaves the whole workspace as it was.
C8_ForbiddenLeavesWorkspace ==
  (/\ last.op \in MutatingTools
   /\ last.args.user_role \notin ACTION_MATRIX[RequiredAction(last.op)]) =>
    /\ last.out.kind = "raise"
    /\ last.out.exc = "PermissionError"
    /\ ws = last.before

C8_Witness ==
  /\ last.op = "move_task"
  /\ last.args.user_role = "viewer"
  /\ last.args.task_query_or_id = "t1"
  /\ last.args.new_status = "done"
  /\ projects_WS = "ws"
  /\ Len(ws.tasks) = 2
  /\ last.out.exc = "PermissionError"

\* a permitted move_task with a valid status whose target is no task id
MoveMissesId ==
  /\ last.op = "move_task"
  /\ projects_WS = "ws"
  /\ last.args.user_role \in ACTION_MATRIX["move_task"]
  /\ NormStatus(last.args.new_status) \in _VALID_STATUSES
  /\ \A i \in 1..Len(last.before.tasks) :
       last.before.tasks[i].id # last.args.task_query_or_id

SeqPart(number) == ParseInt(TrailingDigits(number))

\* C10: of two invoices created one directly after the other, the second has
\* the sequence part of the first plus exactly 1.
C10_SuffixesDifferByOne ==
  \A i \in (Len(last.before.invoices) + 2)..Len(ws.invoices) :
    SeqPart(ws.invoices[i].number) = IntInc(SeqPart(ws.invoices[i - 1].number))

\* round to hundredths of n ten-thousandths, half away from zero
RoundHalfUp(n) == IF n % 100 >= 50 THEN n \div 100 + 1 ELSE n \div 100

\* C11: the totals computed for an invoice have subtotal the exact sum of
\* qty * unit_price, vat the exact product subtotal * vat_rate rounded to
\* hundredths (a halfway case rounded half-to-even or half-up), and
\* total = subtotal + vat.
C11_TotalsExact ==
  last.op = "_compute_totals" =>
    /\ last.out.value.subtotal = Subtotal(last.args.line_items)
    /\ last.out.value.vat \in
         {RoundHalfEven(Subtotal(last.args.line_items) * last.args.vat_rate),
          RoundHalfUp(Subtotal(last.args.line_items) * last.args.vat_rate)}
    /\ last.out.value.total = last.out.value.subtotal + last.out.value.vat

Reported(inv, overdue) == \E j \in 1..Len(overdue) : overdue[j] = inv

\* C12: an invoice is reported overdue for a day "today" exactly when its
\* date plus its own due_days lies before today and its status is not "paid".
C12_OverdueIff ==
  last.op = "get_overdue_invoices" =>
    \A i \in 1..Len(ws.invoices) :
      Reported(ws.invoices[i], last.out.value)
        <=> /\ DateLess(AddDays(ws.invoices[i].date, ws.invoices[i].due_days),
                        last.args.today)
            /\ ws.invoices[i].status # "paid"

\* C13: weekly_summary called without dates returns the window that starts
\* on the Monday of today's week and ends on the Sunday six days later.
C13_DefaultWindowIsTodaysWeek ==
  (last.op = "weekly_summary" /\ last.args = NoArgs) =>
    /\ last.out.kind = "return"
    /\ Weekday(last.out.value.window.start) = 0
    /\ DateLeq(last.out.value.window.start, date_today)
    /\ DateLeq(date_today, last.out.value.window.end)
    /\ last.out.value.window.end = AddDays(last.out.value.window.start, 6)

\* C14: weekly_summary called with exactly one of start_date and end_date
\* fails with an invalid-argument error.
C14_OneDateIsInvalid ==
  (last.op = "weekly_summary" /\ Cardinality(DOMAIN last.args) = 1) =>
    /\ last.out.kind = "raise"
    /\ last.out.exc \in {"InvalidArgument", "ValueError"}

Advertised ==
  {"find_client", "create_invoice", "chase_late_payers", "list_tasks",
   "create_task", "move_task", "record_expense", "weekly_summary"}

\* the tool function that carries an advertised name
NamedTool(w, h, name, args) ==
  CASE name = "find_client"       -> find_client(w, h.crm, args)
    [] name = "create_invoice"    -> create_invoice(w, h.crm, args)
    [] name = "chase_late_payers" -> chase_late_payers(w, h.crm, args)
    [] name = "list_tasks"        -> list_tasks(w, h.projects, args)
    [] name = "create_task"       -> create_task(w, h.projects, args)
    [] name = "move_task"         -> move_task(w, h.projects, args)
    [] name = "record_expense"    -> record_expenses(w, h.ops, args)
    [] name = "weekly_summary"    -> weekly_summary(w, h.ops, args)

SameResult(r, expected) ==
  /\ r.ok = expected.ok
  /\ IF r.ok THEN r.output = expected.output ELSE r.error = expected.error

\* C15: dispatching an advertised tool name never gives "Unknown tool" and
\* gives the result of the tool function of that name.
C15_RegistryInSync ==
  (last.op = "_execute_tool" /\ last.args.name \in Advertised) =>
    /\ last.out.value.ok \/ last.out.value.error # <<"Unknown tool: ", last.args.name>>
    /\ SameResult(last.out.value,
                  TryExcept(last.args.name,
                            NamedTool(last.before, Handles, last.args.name,
                                      last.args.arguments)).out.value)

Ids(seq) == {seq[i].id : i \in 1..Len(seq)}

FieldIn(seq, field, allowed) == \A i \in 1..Len(seq) : seq[i][field] \in allowed

MoveAllowed ==
  /\ last.op = "move_task"
  /\ projects_WS = "ws"
  /\ last.args.user_role \in ACTION_MATRIX["move_task"]
  /\ NormStatus(last.args.new_status) \in _VALID_STATUSES

\* task i of tasks is the one a query names: the first with that id, or,
\* when no id matches, the task of the searched project with that title
Names(tasks, i, query, project_id) ==
  \/ FirstById(tasks, query, 1) = i
  \/ /\ FirstById(tasks, query, 1) = 0
     /\ tasks[i].title = query
     /\ project_id \in {None, tasks[i].project_id}

\* C17: a permitted move_task with a valid status sets the status of the
\* task its query names, by id or else by title, and changes no other task.
C17_MoveResolvesIdThenTitle ==
  MoveAllowed =>
    \A i \in 1..Len(last.before.tasks) :
      Names(last.before.tasks, i, last.args.task_query_or_id,
            Get(last.args, "project_id", None))
        => ws.tasks = [last.before.tasks EXCEPT
                         ![i].status = NormStatus(last.args.new_status)]

\* C18: create_invoice by a permitted role for an existing client returns
\* and appends exactly one invoice, a draft for that client; the invoices
\* before it and every other collection stay as they were.
C18_CreateInvoiceAppendsDraft ==
  (/\ last.op = "create_invoice"
   /\ last.args.user_role \in ACTION_MATRIX["create_invoice"]
   /\ last.args.client_id \in Ids(last.before.clients)) =>
    /\ last.out.kind = "return"
    /\ Len(ws.invoices) = Len(last.before.invoices) + 1
    /\ SubSeq(ws.invoices, 1, Len(last.before.invoices)) = last.before.invoices
    /\ ws.invoices[Len(ws.invoices)].status = "draft"
    /\ ws.invoices[Len(ws.invoices)].client_id = last.args.client_id
    /\ [ws EXCEPT !.invoices = last.before.invoices] = last.before

\* the largest sequence part among the first n invoice numbers, 0 for none
RECURSIVE MaxSeq(_, _)
MaxSeq(invoices, n) ==
  IF n = 0 THEN <<"0">>
  ELSE IntMax(MaxSeq(invoices, n - 1), SeqPart(invoices[n].number))

\* C19: the sequence part of a new invoice number is 81 when there is no
\* earlier number, and otherwise one more than the largest sequence part of
\* the earlier numbers, the year not being part of it.
C19_SequenceFromMaxSuffix ==
  \A i \in (Len(last.before.invoices) + 1)..Len(ws.invoices) :
    SeqPart(ws.invoices[i].number) =
      IF i = 1 THEN <<"8", "1">> ELSE IntInc(MaxSeq(ws.invoices, i - 1))

\* C20: create_task by a permitted role on attached projects appends, for an
\* existing project, exactly one task with status "todo" and the id t<n>,
\* n one more than the largest numeric suffix, all ids distinct; for a
\* project that does not exist it fails with "not found" and appends nothing.
C20_CreateTaskAppendsTodo ==
  (/\ last.op = "create_task"
   /\ projects_WS = "ws"
   /\ last.args.user_role \in ACTION_MATRIX["create_task"]) =>
    IF last.args.project_id \in Ids(last.before.projects)
    THEN /\ last.out.kind = "return"
         /\ Len(ws.tasks) = Len(last.before.tasks) + 1
         /\ SubSeq(ws.tasks, 1, Len(last.before.tasks)) = last.before.tasks
         /\ ws.tasks[Len(ws.tasks)].status = "todo"
         /\ ws.tasks[Len(ws.tasks)].id = TaskId(BestTail(last.before.tasks, 0) + 1)
         /\ Cardinality(Ids(ws.tasks)) = Len(ws.tasks)
    ELSE /\ last.out.kind = "raise"
         /\ last.out.exc = "ValueError"
         /\ last.out.msg = <<"Project '", last.args.project_id, "' not found.">>
         /\ ws.tasks = last.before.tasks

\* C21: record_expense by a permitted role with a positive amount and a
\* supported currency returns and appends exactly one expense, with an id
\* no earlier expense has and the supplied date or else today's; no other
\* collection changes.
C21_RecordExpenseAppends ==
  (/\ last.op = "record_expenses"
   /\ last.args.user_role \in ACTION_MATRIX["record_expense"]
   /\ last.args.amount > 0
   /\ last.args.currency \in Currencies) =>
    /\ last.out.kind = "return"
    /\ Len(ws.expenses) = Len(last.before.expenses) + 1
    /\ SubSeq(ws.expenses, 1, Len(last.before.expenses)) = last.before.expenses
    /\ ws.expenses[Len(ws.expenses)].id \notin Ids(last.before.expenses)
    /\ ws.expenses[Len(ws.expenses)].date = Get(last.args, "date_iso", date_today)
    /\ [ws EXCEPT !.expenses = last.before.expenses] = last.before

\* C22: record_expense with amount <= 0 or an unsupported currency, and
\* move_task with a status outside todo/doing/done, fail with a validation
\* error and leave the expenses and the tasks as they were.
C22_ValidationBeforeWrite ==
  /\ (/\ last.op = "record_expenses"
      /\ last.args.user_role \in ACTION_MATRIX["record_expense"]
      /\ (last.args.amount <= 0 \/ last.args.currency \notin Currencies)) =>
       /\ last.out.kind = "raise"
       /\ last.out.exc \in {"ValueError", "InvalidArgument"}
       /\ ws.expenses = last.before.expenses
  /\ (/\ last.op = "move_task"
      /\ projects_WS = "ws"
      /\ last.args.user_role \in ACTION_MATRIX["move_task"]
      /\ NormStatus(last.args.new_status) \notin _VALID_STATUSES) =>
       /\ last.out.kind = "raise"
       /\ last.out.exc \in {"ValueError", "InvalidArgument"}
       /\ ws.tasks = last.before.tasks

ReadOnlyTools == {"find_client", "chase_late_payers", "list_tasks", "weekly_summary"}

\* C23: a call of find_client, chase_late_payers, list_tasks or
\* weekly_summary, direct or dispatched by name with any arguments, leaves the
\* whole workspace as it was.
C23_ReadOnlyToolsLeaveWorkspace ==
  (\/ last.op \in ReadOnlyTools
   \/ last.op = "_execute_tool" /\ last.args.name \in ReadOnlyTools) =>
    ws = last.before

\* list_tasks dispatched for a permitted role with the arguments of
\* create_task, on attached projects
C23_Witness ==
  /\ last.op = "_execute_tool"
  /\ last.args.name = "list_tasks"
  /\ projects_WS = "ws"
  /\ DOMAIN last.args.arguments = {"user_role", "project_id", "title"}
  /\ last.args.arguments.project_id \in Ids(last.before.projects)
  /\ ws = last.before

\* C25: a Tool Result of dispatch has no error when ok, and no output but a
\* non-empty error message when not ok.
C25_OutputXorError ==
  last.op = "_execute_tool" =>
    IF last.out.value.ok THEN last.out.value.error = None
    ELSE last.out.value.output = None /\ Len(last.out.value.error) > 0

C25_Witness ==
  /\ last.op = "_execute_tool"
  /\ last.out.value.ok
  /\ last.args.name = "move_task"
  /\ ws # last.before

ToolMessages(messages) == SelectSeq(messages, LAMBDA m : m.role = "tool")

\* C26: a run in which the model asks for tools returns an audit log in
\* which each executed call has a "tool_call" entry directly followed by its
\* "tool_result" entry, whose ok flag is that of the call's Tool Result.
C26_AuditPairsPerCall ==
  (last.op = "run" /\ last.args \in {StubOneThenText, StubTwoCalls, StubUnknown}) =>
    /\ last.out.kind = "return"
    /\ Cardinality({i \in 1..Len(last.out.value.audit) :
                      last.out.value.audit[i].step = "tool_call"})
         = Len(ToolMessages(last.out.value.messages))
    /\ \A i \in 1..Len(last.out.value.audit) :
         last.out.value.audit[i].step = "tool_call" =>
           /\ i < Len(last.out.value.audit)
           /\ last.out.value.audit[i + 1].step = "tool_result"
           /\ last.out.value.audit[i + 1].tool_call = last.out.value.audit[i].tool_call
           /\ last.out.value.audit[i + 1].ok = last.out.value.audit[i + 1].tool_result.ok

RECURSIVE PaidTotal(_, _, _, _)
\* the amounts of the first n payments that lie in the window and whose
\* invoice exists and is in currency c
PaidTotal(w, window, c, n) ==
  IF n = 0 THEN 0
  ELSE PaidTotal(w, window, c, n - 1)
       + (IF /\ in_window(window, w.payments[n].date)
             /\ FirstById(w.invoices, w.payments[n].invoice_id, 1) # 0
             /\ w.invoices[FirstById(w.invoices, w.payments[n].invoice_id, 1)].currency = c
          THEN w.payments[n].amount ELSE 0)

\* C24: the payments loop of weekly_summary ends normally, and the total it
\* keeps for a currency is the sum of the in-window payments whose invoice
\* exists and is in that currency; a payment without an invoice adds nothing.
C24_PaymentsByInvoiceCurrency ==
  last.op = "weekly_summary.payments" =>
    /\ last.out.kind = "return"
    /\ \A c \in Currencies :
         last.out.value[c].total
           = PaidTotal(ws, last.args.window, c, Len(ws.payments))

\* the bonus the ranking is said to add for a client
ClaimedBonus(graph, client_id, day) ==
  IF graph.kind = "NoneType" THEN 0
  ELSE (IF \E i \in 1..Len(graph.successors[client_id].projects) :
             graph.successors[client_id].projects[i] = "active"
        THEN 10 ELSE 0)
       + (IF \E i \in 1..Len(graph.successors[client_id].invoices) :
               DateLeq(SubDays(day, 60), graph.successors[client_id].invoices[i])
          THEN 5 ELSE 0)

\* candidate j of the fuzzy list is ranked before candidate i
RankedBefore(fuzzy, graph, day, j, i) ==
  \/ fuzzy[j].score + ClaimedBonus(graph, fuzzy[j].client.id, day)
       > fuzzy[i].score + ClaimedBonus(graph, fuzzy[i].client.id, day)
  \/ /\ fuzzy[j].score + ClaimedBonus(graph, fuzzy[j].client.id, day)
          = fuzzy[i].score + ClaimedBonus(graph, fuzzy[i].client.id, day)
     /\ j < i

\* C27: the ranking of find_client returns at most top_k clients, no id
\* twice, ordered by descending fuzzy score plus bonus (+10 for an active
\* project, +5 for an invoice of the last 60 days), ties in fuzzy order.
C27_RankedByScorePlusBonus ==
  last.op = "find_client.rank" =>
    /\ Len(last.out.value) <= last.args.top_k
    /\ Len(last.out.value) =
         (IF Len(last.args.fuzzy) < last.args.top_k THEN Len(last.args.fuzzy)
          ELSE last.args.top_k)
    /\ \A m, n \in 1..Len(last.out.value) :
         m # n => last.out.value[m].id # last.out.value[n].id
    /\ \A n \in 1..Len(last.out.value) :
         \E i \in 1..Len(last.args.fuzzy) :
           /\ last.out.value[n] = last.args.fuzzy[i].client
           /\ Cardinality({j \in 1..Len(last.args.fuzzy) :
                             RankedBefore(last.args.fuzzy, last.args.graph,
                                          date_today, j, i)}) = n - 1

\* C28: attach_workspace of crm, projects or ops leaves that module holding
\* the workspace, so that none of its tools answers "Workspace not attached".
C28_AttachBindsWorkspace ==
  /\ last.op = "crm.attach_workspace" => crm_WS = "ws"
  /\ last.op = "projects.attach_workspace" => projects_WS = "ws"
  /\ last.op = "ops.attach_workspace" => ops_WS = "ws"

DirectTools ==
  {"find_client", "create_invoice", "chase_late_payers", "list_tasks",
   "create_task", "move_task", "record_expenses", "weekly_summary"}

\* the last step was a tool call, direct or dispatched, that passed "viewer"
ViewerCall ==
  \/ /\ last.op \in DirectTools
     /\ "user_role" \in DOMAIN last.args
     /\ last.args.user_role = "viewer"
  \/ /\ last.op = "_execute_tool"
     /\ "user_role" \in DOMAIN last.args.arguments
     /\ last.args.arguments.user_role = "viewer"

\* C29: a tool call that passes the role "viewer", direct or dispatched,
\* leaves every collection of the workspace as it was before the call.
C29_ViewerNeverMutates == ViewerCall => ws = last.before

\* a viewer's dispatched move_task that names an existing task and a valid
\* status, with projects attached
C29_Witness ==
  /\ ViewerCall
  /\ last.op = "_execute_tool"
  /\ last.args.name = "move_task"
  /\ projects_WS = "ws"
  /\ last.args.arguments.task_query_or_id \in Ids(last.before.tasks)
  /\ NormStatus(last.args.arguments.new_status) \in _VALID_STATUSES
  /\ ~last.out.value.ok

\* C30: every reminder drafted for a day "today" carries a due_date that
\* lies before today.
C30_ReminderDueBeforeToday ==
  last.op = "chase_late_payers.reminders" =>
    \A i \in 1..Len(last.out.value) :
      DateLess(last.out.value[i].due_date, last.args.today)

====
